---- MODULE Spec2Model ----
(* A model of knip's dependency-graph merge primitives                      *)
(* (packages/knip/src/util/dependency-graph.ts) and of its gitignore        *)
(* resolver and file enumerator (packages/knip/src/util/glob-core.ts).      *)
EXTENDS Integers, Sequences, FiniteSets, TLC

(***************************************************************************)
(* PART 1 - dependency-graph.ts                                            *)
(*                                                                         *)
(* JavaScript objects have identity, and the code stores references, so    *)
(* the model keeps a heap: every Set, Map, ImportDetails and FileNode is a *)
(* cell of a sequence and is named by its index.  A Map is a sequence of   *)
(* entries [k, v] in insertion order (the order JavaScript iterates it).   *)
(***************************************************************************)

VARIABLES graph, nodes, details, sets, maps, importMaps, parsed, analyzed,
          calls, referenced

graphVars == <<graph, nodes, details, sets, maps, importMaps, parsed, analyzed,
               calls, referenced>>

(* The other parts' variables: the merge laws' operands and results, the    *)
(* pattern being normalized, and the ignore resolver's state (part 2).      *)
VARIABLES operands, law, lhs, rhs, raw, converted,
          fs, cachedIgnores, run, walk, pc, sessions, handler, glob

mergeVars == <<operands, law, lhs, rhs>>

normVars == <<raw, converted>>

globVars == <<fs, cachedIgnores, run, walk, pc, sessions, handler, glob>>

vars == <<graphVars, mergeVars, normVars, globVars>>

(* Each part's actions leave the other parts alone. *)
GraphFrame == UNCHANGED <<mergeVars, normVars, globVars>>

MergeFrame == UNCHANGED <<graphVars, normVars, globVars>>

NormFrame == UNCHANGED <<graphVars, mergeVars, globVars>>

GlobFrame == UNCHANGED <<graphVars, mergeVars, normVars>>

None == 0

Entry(key, value) == [k |-> key, v |-> value]

MapHas(map, key) == \E i \in DOMAIN map : map[i].k = key

MapGet(map, key) == map[CHOOSE i \in DOMAIN map : map[i].k = key].v

MapSet(map, key, value) ==
  IF MapHas(map, key)
  THEN [i \in DOMAIN map |-> IF map[i].k = key THEN Entry(key, value) ELSE map[i]]
  ELSE Append(map, Entry(key, value))

MapKeys(map) == {map[i].k : i \in DOMAIN map}

(* The memory the operations below transform: the graph and the four heaps. *)
Mem == [graph |-> graph, nodes |-> nodes, details |-> details, sets |-> sets,
        maps |-> maps]

EmptyMem == [graph |-> <<>>, nodes |-> <<>>, details |-> <<>>, sets |-> <<>>,
             maps |-> <<>>]

(* new Set(elems) *)
newSet(m, elems) == [m |-> [m EXCEPT !.sets = Append(@, elems)], r |-> Len(m.sets) + 1]

(* new Map(entries) *)
newMap(m, entries) == [m |-> [m EXCEPT !.maps = Append(@, entries)], r |-> Len(m.maps) + 1]

(* createFileNode: a fresh node, with no `imported` field, not registered.  *)
createFileNode(m) ==
  [m |-> [m EXCEPT !.nodes = Append(@, [internal |-> <<>>, imported |-> None])],
   r |-> Len(m.nodes) + 1]

(* A plausible slip: the lookup is skipped and a node is always created.    *)
getOrCreateFileNode_Fresh(m, filePath) == createFileNode(m)

(* getOrCreateFileNode: graph.get(filePath) ?? createFileNode()             *)
getOrCreateFileNode(m, filePath) ==
  IF MapHas(m.graph, filePath)
  THEN [m |-> m, r |-> MapGet(m.graph, filePath)]
  ELSE createFileNode(m)

(* createImports: one Set and six Maps, all empty and all fresh.            *)
createImports(m) ==
  LET s  == Len(m.sets) + 1
      b  == Len(m.maps)
      d  == [refs |-> s, imported |-> b + 1, importedAs |-> b + 2,
             importedNs |-> b + 3, reExported |-> b + 4, reExportedAs |-> b + 5,
             reExportedNs |-> b + 6]
  IN [m |-> [m EXCEPT !.sets = Append(@, {}),
                      !.maps = @ \o <<<<>>, <<>>, <<>>, <<>>, <<>>, <<>>>>,
                      !.details = Append(@, d)],
      r |-> Len(m.details) + 1]

(* addValue(map, id, value) *)
addValue(m, map, id, value) ==
  IF MapHas(m.maps[map], id)
  THEN [m EXCEPT !.sets[MapGet(m.maps[map], id)] = @ \cup {value}]
  ELSE LET n == newSet(m, {value})
       IN [n.m EXCEPT !.maps[map] = MapSet(@, id, n.r)]

(* addNsValue(map, id, ns, value) *)
addNsValue(m, map, id, ns, value) ==
  IF MapHas(m.maps[map], id)
  THEN addValue(m, MapGet(m.maps[map], id), ns, value)
  ELSE LET s == newSet(m, {value})
           n == newMap(s.m, <<Entry(ns, s.r)>>)
       IN [n.m EXCEPT !.maps[map] = MapSet(@, id, n.r)]

(* A plausible slip: an existing key is overwritten instead of unioned.     *)
addValues_Overwrite(m, map, id, values) ==
  [m EXCEPT !.maps[map] = MapSet(@, id, values)]

(* addValues(map, id, values): union into the key's Set, or adopt the       *)
(* caller's Set object itself when the key is new.                          *)
addValues(m, map, id, values) ==
  IF MapHas(m.maps[map], id)
  THEN [m EXCEPT !.sets[MapGet(m.maps[map], id)] = @ \cup m.sets[values]]
  ELSE [m EXCEPT !.maps[map] = MapSet(@, id, values)]

RECURSIVE addValuesEach(_, _, _, _)
(* for (const [id, v] of entries) addValues(map, id, v) *)
addValuesEach(m, map, entries, i) ==
  IF i > Len(entries) THEN m
  ELSE addValuesEach(addValues(m, map, entries[i].k, entries[i].v), map, entries, i + 1)

(* addNsValues(map, id, value): merge the alias map key by key, or adopt    *)
(* the caller's Map object itself when the key is new.                      *)
addNsValues(m, map, id, value) ==
  IF MapHas(m.maps[map], id)
  THEN addValuesEach(m, MapGet(m.maps[map], id), m.maps[value], 1)
  ELSE [m EXCEPT !.maps[map] = MapSet(@, id, value)]

RECURSIVE addNsValuesEach(_, _, _, _)
(* for (const [id, v] of entries) addNsValues(map, id, v) *)
addNsValuesEach(m, map, entries, i) ==
  IF i > Len(entries) THEN m
  ELSE addNsValuesEach(addNsValues(m, map, entries[i].k, entries[i].v), map, entries, i + 1)

(* updateImportDetails(importedModule, importItems): the seven loops.       *)
updateImportDetails(m, importedModule, importItems) ==
  LET a  == m.details[importedModule]
      b  == m.details[importItems]
      m1 == [m EXCEPT !.sets[a.refs] = @ \cup m.sets[b.refs]]
      m2 == addValuesEach(m1, a.imported, m1.maps[b.imported], 1)
      m3 == addNsValuesEach(m2, a.importedAs, m2.maps[b.importedAs], 1)
      m4 == addValuesEach(m3, a.importedNs, m3.maps[b.importedNs], 1)
      m5 == addValuesEach(m4, a.reExported, m4.maps[b.reExported], 1)
      m6 == addNsValuesEach(m5, a.reExportedAs, m5.maps[b.reExportedAs], 1)
  IN addValuesEach(m6, a.reExportedNs, m6.maps[b.reExportedNs], 1)

(* A plausible slip: the target's node is updated but never registered.     *)
updateImportMapEntry_NoRegister(m, file, importedFilePath, importDetails) ==
  LET internal == m.nodes[file].internal
      m1 == IF ~MapHas(internal, importedFilePath)
            THEN [m EXCEPT !.nodes[file].internal = MapSet(@, importedFilePath, importDetails)]
            ELSE updateImportDetails(m, MapGet(internal, importedFilePath), importDetails)
      g  == getOrCreateFileNode(m1, importedFilePath)
  IN IF g.m.nodes[g.r].imported = None
     THEN [g.m EXCEPT !.nodes[g.r].imported = importDetails]
     ELSE updateImportDetails(g.m, g.m.nodes[g.r].imported, importDetails)

(* A plausible slip: the target's aggregate is replaced, not merged into.    *)
updateImportMapEntry_Overwrite(m, file, importedFilePath, importDetails) ==
  LET internal == m.nodes[file].internal
      m1 == IF ~MapHas(internal, importedFilePath)
            THEN [m EXCEPT !.nodes[file].internal = MapSet(@, importedFilePath, importDetails)]
            ELSE updateImportDetails(m, MapGet(internal, importedFilePath), importDetails)
      g  == getOrCreateFileNode(m1, importedFilePath)
      m2 == [g.m EXCEPT !.nodes[g.r].imported = importDetails]
  IN [m2 EXCEPT !.graph = MapSet(@, importedFilePath, g.r)]

(* One iteration of updateImportMap's loop, for the entry                   *)
(* [importedFilePath, importDetails] of the import map.                     *)
updateImportMapEntry(m, file, importedFilePath, importDetails) ==
  LET internal == m.nodes[file].internal
      m1 == IF ~MapHas(internal, importedFilePath)
            THEN [m EXCEPT !.nodes[file].internal = MapSet(@, importedFilePath, importDetails)]
            ELSE updateImportDetails(m, MapGet(internal, importedFilePath), importDetails)
      g  == getOrCreateFileNode(m1, importedFilePath)
      m2 == IF g.m.nodes[g.r].imported = None
            THEN [g.m EXCEPT !.nodes[g.r].imported = importDetails]
            ELSE updateImportDetails(g.m, g.m.nodes[g.r].imported, importDetails)
  IN [m2 EXCEPT !.graph = MapSet(@, importedFilePath, g.r)]

RECURSIVE updateImportMapFrom(_, _, _, _)
updateImportMapFrom(m, file, importMap, i) ==
  IF i > Len(importMap) THEN m
  ELSE updateImportMapFrom(
         updateImportMapEntry(m, file, importMap[i].k, importMap[i].v),
         file, importMap, i + 1)

(* updateImportMap(file, importMap, graph) *)
updateImportMap(m, file, importMap) == updateImportMapFrom(m, file, importMap, 1)

(* The analysis of one file, as its caller performs it: obtain the node,    *)
(* fold the file's import map in, register the node under the file's path.  *)
analyzeFile(m, filePath, importMap) ==
  LET g  == getOrCreateFileNode(m, filePath)
      m1 == updateImportMap(g.m, g.r, importMap)
  IN [m1 EXCEPT !.graph = MapSet(@, filePath, g.r)]

(***************************************************************************)
(* The parser's output (an external collaborator): per file an import map  *)
(* target path -> ImportDetails, built with createImports, addValue and    *)
(* addNsValue.  An import is [target, kind, id]; the importer-id stored is *)
(* the importing file's path.                                              *)
(***************************************************************************)
Files == <<"A", "B", "C">>

FileSet == {Files[i] : i \in DOMAIN Files}

Kinds == {"refs", "imported", "importedAs", "importedNs", "reExported",
          "reExportedAs", "reExportedNs"}

Import(target, kind, id) == [target |-> target, kind |-> kind, id |-> id]

(* One ImportDetails object holding the single fact `imp` seen in `importer`. *)
parseImport(m, importer, imp) ==
  LET c == createImports(m)
      d == c.m.details[c.r]
      k == imp.kind
      filled ==
        IF k = "refs" THEN [c.m EXCEPT !.sets[d.refs] = @ \cup {imp.id}]
        ELSE IF k = "importedAs" THEN addNsValue(c.m, d.importedAs, imp.id, "alias", importer)
        ELSE IF k = "reExportedAs" THEN addNsValue(c.m, d.reExportedAs, imp.id, "alias", importer)
        ELSE addValue(c.m, d[k], imp.id, importer)
  IN [m |-> filled, r |-> c.r]

RECURSIVE parseFile(_, _, _, _, _)
(* The import map of one file: entries in the order the imports are seen.   *)
parseFile(m, importer, imps, i, importMap) ==
  IF i > Len(imps) THEN [m |-> m, r |-> importMap]
  ELSE LET p == parseImport(m, importer, imps[i])
       IN parseFile(p.m, importer, imps, i + 1, MapSet(importMap, imps[i].target, p.r))

RECURSIVE parseAll(_, _, _, _)
(* All files parsed: the memory holding their ImportDetails, and the maps.  *)
parseAll(m, imports, i, acc) ==
  IF i > Len(Files) THEN [m |-> m, r |-> acc]
  ELSE LET p == parseFile(m, Files[i], imports[Files[i]], 1, <<>>)
       IN parseAll(p.m, imports, i + 1, acc @@ (Files[i] :> p.r))

Parsed(imports) == parseAll(EmptyMem, imports, 1, <<>>)

(* The projects explored: A imports x from B or C, B imports x from C (each *)
(* in any of the seven forms), and C imports nothing or y from A.           *)
Projects ==
  {[A |-> <<Import(tA, kA, "x")>>, B |-> <<Import("C", kB, "x")>>, C |-> c] :
     tA \in {"B", "C"}, kA \in Kinds, kB \in Kinds,
     c \in {<<>>, <<Import("A", "imported", "y")>>}}

(***************************************************************************)
(* Content: what a graph holds, with object identity forgotten.            *)
(***************************************************************************)
SetsOf(m, map) ==
  [id \in MapKeys(m.maps[map]) |-> m.sets[MapGet(m.maps[map], id)]]

NsOf(m, map) ==
  [id \in MapKeys(m.maps[map]) |-> SetsOf(m, MapGet(m.maps[map], id))]

DetailsContent(m, d) ==
  LET x == m.details[d]
  IN [refs |-> m.sets[x.refs], imported |-> SetsOf(m, x.imported),
      importedAs |-> NsOf(m, x.importedAs), importedNs |-> SetsOf(m, x.importedNs),
      reExported |-> SetsOf(m, x.reExported), reExportedAs |-> NsOf(m, x.reExportedAs),
      reExportedNs |-> SetsOf(m, x.reExportedNs)]

NodeContent(m, n) ==
  LET x == m.nodes[n]
  IN [internal |-> [t \in MapKeys(x.internal) |-> DetailsContent(m, MapGet(x.internal, t))],
      imported |-> IF x.imported = None THEN {} ELSE {DetailsContent(m, x.imported)}]

GraphContent(m) ==
  [p \in MapKeys(m.graph) |-> NodeContent(m, MapGet(m.graph, p))]

(***************************************************************************)
(* The graph's state machine.                                              *)
(***************************************************************************)
MaxCalls == 2

GraphIdle ==
  /\ graph = <<>> /\ nodes = <<>> /\ details = <<>> /\ sets = <<>> /\ maps = <<>>
  /\ importMaps = <<>> /\ parsed = <<>> /\ analyzed = <<>> /\ calls = <<>>
  /\ referenced = {}

GraphInit ==
  /\ parsed \in Projects
  /\ LET p == Parsed(parsed)
     IN /\ graph = p.m.graph /\ nodes = p.m.nodes /\ details = p.m.details
        /\ sets = p.m.sets /\ maps = p.m.maps
        /\ importMaps = p.r
  /\ analyzed = <<>>
  /\ calls = <<>>
  /\ referenced = {}

SetMem(m) ==
  /\ graph' = m.graph /\ nodes' = m.nodes /\ details' = m.details
  /\ sets' = m.sets /\ maps' = m.maps

Analyzed == {analyzed[i] : i \in DOMAIN analyzed}

(* A file is analyzed, once. *)
Analyze(f) ==
  /\ f \notin Analyzed
  /\ SetMem(analyzeFile(Mem, f, importMaps[f]))
  /\ analyzed' = Append(analyzed, f)
  /\ referenced' = referenced \cup MapKeys(importMaps[f])
  /\ UNCHANGED <<importMaps, parsed, calls>>
  /\ GraphFrame

(* A caller asks for the node of path p; `calls` lists the answers given,   *)
(* each with the number of analyses done before it (`at`), so two calls     *)
(* with the same `at` have no graph mutation between them.                  *)
GetNode(p) ==
  /\ Len(calls) < MaxCalls
  /\ LET g == getOrCreateFileNode(Mem, p)
     IN /\ SetMem(g.m)
        /\ calls' = Append(calls, [path |-> p, node |-> g.r, at |-> Len(analyzed),
                                   registered |-> MapHas(graph, p)])
  /\ UNCHANGED <<importMaps, parsed, analyzed, referenced>>
  /\ GraphFrame

GraphNext ==
  \/ \E f \in FileSet : Analyze(f)
  \/ \E p \in FileSet : GetNode(p)

RECURSIVE analyzeInOrder(_, _, _, _)
(* The files analyzed one after the other in the given order.               *)
analyzeInOrder(m, imps, order, i) ==
  IF i > Len(order) THEN m
  ELSE analyzeInOrder(analyzeFile(m, order[i], imps[order[i]]), imps, order, i + 1)

AllAnalyzed == Len(analyzed) = Len(Files)

(* C1: analyzing every file once, in any order, ends in the graph content   *)
(* that the order A, B, C ends in: the same paths, and per path the same    *)
(* imports.internal entries and the same imported aggregate.                *)
C1_OrderIndependent ==
  AllAnalyzed =>
    GraphContent(Mem) = GraphContent(analyzeInOrder(Parsed(parsed).m, importMaps, Files, 1))

SameEpoch(i, j) == calls[i].path = calls[j].path /\ calls[i].at = calls[j].at

C3_TargetsRegistered == \A t \in referenced : MapHas(graph, t)

C3_Witness == \E t \in referenced : t \notin Analyzed /\ MapHas(graph, t)

(* What the parser handed over for target t in the import map of source s,  *)
(* as content, before any updateImportMap call touched it.                  *)
PassedIn(m0, s, t) == DetailsContent(m0, MapGet(importMaps[s], t))

Passed(s, t) == PassedIn(Parsed(parsed).m, s, t)

Importers(t) == {s \in Analyzed : MapHas(importMaps[s], t)}

InternalOf(s, t) == MapGet(nodes[MapGet(graph, s)].internal, t)

(* C12: s.imports.internal[t] holds exactly what s passed for t, whatever   *)
(* other sources were analyzed, and is no object that a target's imported   *)
(* aggregate also is.                                                       *)
C12_OwnedStorage ==
  \A s \in Analyzed : \A t \in MapKeys(importMaps[s]) :
    /\ DetailsContent(Mem, InternalOf(s, t)) = Passed(s, t)
    /\ \A u \in MapKeys(graph) : nodes[MapGet(graph, u)].imported # InternalOf(s, t)

(* Union of two contents of an IdToFileMap, of an IdToNsToFileMap and of an *)
(* ImportDetails.                                                           *)
unionSets(f, g) ==
  [id \in DOMAIN f \cup DOMAIN g |->
     (IF id \in DOMAIN f THEN f[id] ELSE {}) \cup (IF id \in DOMAIN g THEN g[id] ELSE {})]

unionNs(f, g) ==
  [id \in DOMAIN f \cup DOMAIN g |->
     IF id \notin DOMAIN g THEN f[id]
     ELSE IF id \notin DOMAIN f THEN g[id] ELSE unionSets(f[id], g[id])]

unionDetails(a, b) ==
  [refs |-> a.refs \cup b.refs, imported |-> unionSets(a.imported, b.imported),
   importedAs |-> unionNs(a.importedAs, b.importedAs),
   importedNs |-> unionSets(a.importedNs, b.importedNs),
   reExported |-> unionSets(a.reExported, b.reExported),
   reExportedAs |-> unionNs(a.reExportedAs, b.reExportedAs),
   reExportedNs |-> unionSets(a.reExportedNs, b.reExportedNs)]

(* The content of the ImportDetails the parser builds for one import. *)
ContentOfImport(importer, imp) ==
  LET one   == [id \in {imp.id} |-> {importer}]
      alias == [id \in {imp.id} |-> [ns \in {"alias"} |-> {importer}]]
      none  == [id \in {} |-> {}]
      At(k, v) == IF imp.kind = k THEN v ELSE none
  IN [refs |-> IF imp.kind = "refs" THEN {imp.id} ELSE {},
      imported |-> At("imported", one), importedAs |-> At("importedAs", alias),
      importedNs |-> At("importedNs", one), reExported |-> At("reExported", one),
      reExportedAs |-> At("reExportedAs", alias), reExportedNs |-> At("reExportedNs", one)]

(* What source s passed for target t: its last import from t. *)
PassedContent(s, t) ==
  LET at == {i \in DOMAIN parsed[s] : parsed[s][i].target = t}
  IN ContentOfImport(s, parsed[s][CHOOSE i \in at : \A j \in at : j <= i])

RECURSIVE unionOfPassed(_, _)
unionOfPassed(ss, t) ==
  LET s == CHOOSE x \in ss : TRUE
  IN IF Cardinality(ss) = 1 THEN PassedContent(s, t)
     ELSE unionDetails(PassedContent(s, t), unionOfPassed(ss \ {s}, t))

ImportedOf(t) == nodes[MapGet(graph, t)].imported

(* C13: at every point, the imported aggregate of every target in the graph *)
(* is, field by field, the union of what the sources analyzed so far passed *)
(* for it; a path nobody imported from has no aggregate.                    *)
C13_ReverseIndexComplete ==
  /\ analyzed = <<>> =>
       \A s \in FileSet : \A t \in MapKeys(importMaps[s]) :
         PassedIn(Mem, s, t) = PassedContent(s, t)
  /\ \A t \in MapKeys(graph) :
       IF Importers(t) = {} THEN ImportedOf(t) = None
       ELSE /\ ImportedOf(t) # None
            /\ DetailsContent(Mem, ImportedOf(t)) = unionOfPassed(Importers(t), t)

C13_Witness ==
  /\ Cardinality(Importers("C")) = 2
  /\ \E c \in NodeContent(Mem, MapGet(graph, "C")).imported :
       \E id \in DOMAIN c.imported : Cardinality(c.imported[id]) = 2

(***************************************************************************)
(* The merge of two ImportDetails, as a function on content.  An operand   *)
(* is a set of facts; it is built as the parser builds it, as a fresh      *)
(* object, and updateImportDetails is run on the objects.                  *)
(***************************************************************************)
Fact(kind, id, ns, value) == [kind |-> kind, id |-> id, ns |-> ns, value |-> value]

(* The facts an operand draws from: three facts of one field, for each of   *)
(* the seven fields, and three facts spread over different fields.          *)
Universes ==
  {<<Fact("refs", "x", "", ""), Fact("refs", "y", "", ""), Fact("refs", "z", "", "")>>,
   <<Fact("refs", "x", "", ""), Fact("imported", "x", "", "A"),
     Fact("importedAs", "x", "alias", "B")>>,
   <<Fact("importedNs", "x", "", "A"), Fact("reExportedAs", "x", "alias", "B"),
     Fact("reExportedNs", "y", "", "A")>>}
  \cup {<<Fact(k, "x", "", "A"), Fact(k, "x", "", "B"), Fact(k, "y", "", "A")>> :
          k \in {"imported", "importedNs", "reExported", "reExportedNs"}}
  \cup {<<Fact(k, "x", "alias", "A"), Fact(k, "x", "alias", "B"),
          Fact(k, "x", "other", "A")>> : k \in {"importedAs", "reExportedAs"}}
  \cup {<<Fact(k, "x", "alias", "A"), Fact(k, "x", "alias", "B"),
          Fact(k, "y", "alias", "B")>> : k \in {"importedAs", "reExportedAs"}}

MaxFacts == 2

addFact(m, d, f) ==
  LET x == m.details[d]
  IN IF f.kind = "refs" THEN [m EXCEPT !.sets[x.refs] = @ \cup {f.id}]
     ELSE IF f.kind \in {"importedAs", "reExportedAs"}
          THEN addNsValue(m, x[f.kind], f.id, f.ns, f.value)
          ELSE addValue(m, x[f.kind], f.id, f.value)

RECURSIVE addFacts(_, _, _, _)
addFacts(m, d, facts, i) ==
  IF i > Len(facts) THEN m ELSE addFacts(addFact(m, d, facts[i]), d, facts, i + 1)

(* A fresh ImportDetails object holding the given facts. *)
build(m, facts) ==
  LET c == createImports(m) IN [m |-> addFacts(c.m, c.r, facts, 1), r |-> c.r]

(* merge(A, B): the content of A's object after updateImportDetails(A, B). *)
mergeAB(A, B) ==
  LET a == build(EmptyMem, A)
      b == build(a.m, B)
  IN DetailsContent(updateImportDetails(b.m, a.r, b.r), a.r)

(* merge(merge(A, B), C): A's object after B, then C, is merged into it. *)
mergeAB_C(A, B, C) ==
  LET a  == build(EmptyMem, A)
      b  == build(a.m, B)
      c  == build(b.m, C)
      m1 == updateImportDetails(c.m, a.r, b.r)
  IN DetailsContent(updateImportDetails(m1, a.r, c.r), a.r)

(* merge(A, merge(B, C)): C is merged into B's object, and that into A's. *)
mergeA_BC(A, B, C) ==
  LET a  == build(EmptyMem, A)
      b  == build(a.m, B)
      c  == build(b.m, C)
      m1 == updateImportDetails(c.m, b.r, c.r)
  IN DetailsContent(updateImportDetails(m1, a.r, b.r), a.r)

(* merge(A, A) with the very same object on both sides. *)
mergeSelf(A) ==
  LET a == build(EmptyMem, A)
  IN DetailsContent(updateImportDetails(a.m, a.r, a.r), a.r)

contentOf(A) == LET a == build(EmptyMem, A) IN DetailsContent(a.m, a.r)

(* The operands over a universe: up to MaxFacts different facts of it, in   *)
(* any order (the order the parser met them in).                            *)
Operand(u) ==
  {[i \in DOMAIN ix |-> u[ix[i]]] :
     ix \in {f \in UNION {[1..n -> DOMAIN u] : n \in 0..MaxFacts} :
               \A i, j \in DOMAIN f : i # j => f[i] # f[j]}}

MergeIdle == operands = <<>> /\ law = "none" /\ lhs = {} /\ rhs = {}

MergeInit ==
  /\ \E u \in Universes : operands \in Operand(u) \X Operand(u) \X Operand(u)
  /\ law = "none" /\ lhs = {} /\ rhs = {}

Commute ==
  /\ law = "none"
  /\ law' = "commutative"
  /\ lhs' = {mergeAB(operands[1], operands[2])}
  /\ rhs' = {mergeAB(operands[2], operands[1])}
  /\ UNCHANGED operands
  /\ MergeFrame

Associate ==
  /\ law = "none"
  /\ law' = "associative"
  /\ lhs' = {mergeAB_C(operands[1], operands[2], operands[3])}
  /\ rhs' = {mergeA_BC(operands[1], operands[2], operands[3])}
  /\ UNCHANGED operands
  /\ MergeFrame

Idempotent ==
  /\ law = "none"
  /\ law' = "idempotent"
  /\ lhs' = {mergeAB(operands[1], operands[1]), mergeSelf(operands[1])}
  /\ rhs' = {contentOf(operands[1])}
  /\ UNCHANGED operands
  /\ MergeFrame

MergeNext == Commute \/ Associate \/ Idempotent

(* C4: on content, merge(A,B) = merge(B,A), merge(merge(A,B),C) =           *)
(* merge(A,merge(B,C)) and merge(A,A) = A, over all seven fields.           *)
C4_UnionLaws == law # "none" => lhs = rhs

C4_Witness ==
  /\ law = "associative"
  /\ \E c \in lhs : \E id \in DOMAIN c.reExportedAs :
        \E ns \in DOMAIN c.reExportedAs[id] : Cardinality(c.reExportedAs[id][ns]) = 2

(***************************************************************************)
(* PART 2 - glob-core.ts                                                   *)
(*                                                                         *)
(* A string is a sequence of tokens.  The characters the code inspects     *)
(* ("!", "/", "*", "#", "\\", " ") are tokens of their own; any other      *)
(* token ("build", ".log", "node_modules") is a run of ordinary characters *)
(* that no operation of the code looks into.                               *)
(***************************************************************************)
startsWith(s, prefix) ==
  Len(s) >= Len(prefix) /\ SubSeq(s, 1, Len(prefix)) = prefix

endsWith(s, suffix) ==
  Len(s) >= Len(suffix) /\ SubSeq(s, Len(s) - Len(suffix) + 1, Len(s)) = suffix

(* s.slice(n) *)
slice(s, n) == SubSeq(s, n + 1, Len(s))

Slash == <<"/">>

StarStarSlash == <<"*", "*", "/">>

(* A plausible slip: a pattern with no leading "/" is left as it is         *)
(* (anchored) instead of being prefixed with the any-depth marker.          *)
convertGitignoreToPicomatchIgnorePatterns_NoDepth(pattern) ==
  LET negated == Len(pattern) > 0 /\ pattern[1] = "!"
      p1 == IF negated THEN slice(pattern, 1) ELSE pattern
      p2 == IF endsWith(p1, Slash) THEN SubSeq(p1, 1, Len(p1) - 1) ELSE p1
      p3 == IF startsWith(p2, <<"*", "/", "*", "*", "/">>) THEN slice(p2, 5) ELSE p2
      p4 == IF startsWith(p3, Slash) THEN slice(p3, 1) ELSE p3
      extPattern == IF endsWith(p4, <<"/", "*">>) THEN p4 ELSE p4 \o <<"/", "*", "*">>
  IN [negated |-> negated, patterns |-> <<p4, extPattern>>]

(* convertGitignoreToPicomatchIgnorePatterns(pattern) *)
convertGitignoreToPicomatchIgnorePatterns(pattern) ==
  LET negated == Len(pattern) > 0 /\ pattern[1] = "!"
      p1 == IF negated THEN slice(pattern, 1) ELSE pattern
      p2 == IF endsWith(p1, Slash) THEN SubSeq(p1, 1, Len(p1) - 1) ELSE p1
      p3 == IF startsWith(p2, <<"*", "/", "*", "*", "/">>) THEN slice(p2, 5) ELSE p2
      p4 == IF startsWith(p3, Slash) THEN slice(p3, 1)
            ELSE IF ~startsWith(p3, StarStarSlash) THEN StarStarSlash \o p3
            ELSE p3
      extPattern == IF endsWith(p4, <<"/", "*">>) THEN p4 ELSE p4 \o <<"/", "*", "*">>
  IN [negated |-> negated, patterns |-> <<p4, extPattern>>]

(* The raw patterns explored: every string of at most MaxLen tokens over    *)
(* Alphabet, and the examples of the documentation.                         *)
MaxLen == 6

Alphabet == {"!", "/", "*", "a"}

Examples ==
  {<<"*", ".log">>, <<"!", "keep", ".log">>, <<"/", "root", ".txt">>, <<"build", "/">>}

RawPatterns == UNION {[1..n -> Alphabet] : n \in 0..MaxLen} \cup Examples

NormIdle == raw = <<>> /\ converted = <<>>

NormInit == raw \in RawPatterns /\ converted = <<>>

(* `converted` holds the results returned so far (none, or the one).        *)
Convert ==
  /\ converted = <<>>
  /\ converted' = <<convertGitignoreToPicomatchIgnorePatterns(raw)>>
  /\ UNCHANGED raw
  /\ NormFrame

NormNext == Convert

(* The normalization as the documentation gives it, by positions in the     *)
(* raw pattern: what is cut at the front, what at the end, what is added.   *)
RefNormalize(r) ==
  LET neg     == r # <<>> /\ Head(r) = "!"
      first   == IF neg THEN 2 ELSE 1
      last    == IF Len(r) >= first /\ r[Len(r)] = "/" THEN Len(r) - 1 ELSE Len(r)
      IsAt(i, t) == i <= last /\ r[i] = t
      lead    == IsAt(first, "*") /\ IsAt(first + 1, "/") /\ IsAt(first + 2, "*")
                   /\ IsAt(first + 3, "*") /\ IsAt(first + 4, "/")
      from    == IF lead THEN first + 5 ELSE first
      anchor  == IsAt(from, "/")
      deep    == IsAt(from, "*") /\ IsAt(from + 1, "*") /\ IsAt(from + 2, "/")
      body    == [i \in 1..(last - from + 1) |-> r[from + i - 1]]
      base    == IF anchor THEN Tail(body)
                 ELSE IF deep THEN body ELSE <<"*", "*", "/">> \o body
      n       == Len(base)
      ext     == IF n >= 2 /\ base[n - 1] = "/" /\ base[n] = "*" THEN base
                 ELSE base \o <<"/", "*", "*">>
  IN [negated |-> neg, patterns |-> <<base, ext>>]

(* C7: the conversion is the documented normalization, for every raw        *)
(* pattern, and gives the documented results on the three examples.         *)
C7_Normalization ==
  \A i \in DOMAIN converted :
    /\ converted[i] = RefNormalize(raw)
    /\ raw = <<"*", ".log">> =>
         converted[i] = [negated |-> FALSE,
                         patterns |-> <<<<"*", "*", "/", "*", ".log">>,
                                        <<"*", "*", "/", "*", ".log", "/", "*", "*">>>>]
    /\ raw = <<"!", "keep", ".log">> =>
         converted[i] = [negated |-> TRUE,
                         patterns |-> <<<<"*", "*", "/", "keep", ".log">>,
                                        <<"*", "*", "/", "keep", ".log", "/", "*", "*">>>>]
    /\ raw = <<"/", "root", ".txt">> =>
         converted[i] = [negated |-> FALSE,
                         patterns |-> <<<<"root", ".txt">>,
                                        <<"root", ".txt", "/", "*", "*">>>>]

C7_Witness ==
  /\ raw = <<"!", "keep", ".log">>
  /\ converted # <<>>
  /\ converted[1].negated

PatternSet(c) == {c.patterns[1], c.patterns[2]}

(* C8 as stated: "build/" yields exactly {"build", "build/**"}.             *)
C8_BuildIsAnchored ==
  \A i \in DOMAIN converted :
    raw = <<"build", "/">> =>
      PatternSet(converted[i]) = {<<"build">>, <<"build", "/", "*", "*">>}

IsName(t) == t \notin {"!", "/", "*"}

(* C8 amended: a pattern that is a single name with a trailing slash and    *)
(* no leading slash gets the any-depth prefix: "build/" yields exactly      *)
(* {"**/build", "**/build/**"}.                                             *)
C8_BuildMatchesAtAnyDepth ==
  \A i \in DOMAIN converted :
    (Len(raw) = 2 /\ IsName(raw[1]) /\ raw[2] = "/") =>
      /\ ~converted[i].negated
      /\ PatternSet(converted[i]) =
           {<<"*", "*", "/", raw[1]>>, <<"*", "*", "/", raw[1], "/", "*", "*">>}

C8_Witness == raw = <<"build", "/">> /\ converted # <<>>

(***************************************************************************)
(* Paths.  A path is the sequence of its segments; an absolute path starts *)
(* with the empty segment, so "/" is <<"">> and "/r/a" is <<"", "r", "a">>.*)
(* A relative path handed to a matcher is a string: its segments joined    *)
(* with "/".                                                               *)
(***************************************************************************)
RootDir == <<"">>

(* dirname(path): the parent; "/" and "." are their own parents.            *)
dirname(path) ==
  IF Len(path) > 1 THEN SubSeq(path, 1, Len(path) - 1)
  ELSE IF path = RootDir THEN RootDir ELSE <<".">>

RECURSIVE joinSegments(_)
joinSegments(segs) ==
  IF segs = <<>> THEN <<>>
  ELSE IF Len(segs) = 1 THEN <<segs[1]>>
  ELSE <<segs[1], "/">> \o joinSegments(Tail(segs))

RECURSIVE commonLen(_, _)
commonLen(a, b) ==
  IF a = <<>> \/ b = <<>> \/ Head(a) # Head(b) THEN 0
  ELSE 1 + commonLen(Tail(a), Tail(b))

(* relative(from, to), for two absolute paths: ".." for every segment of    *)
(* `from` below the common ancestor, then the rest of `to`.                 *)
relative(from, to) ==
  LET n == commonLen(from, to)
  IN joinSegments([i \in 1..(Len(from) - n) |-> ".."] \o SubSeq(to, n + 1, Len(to)))

RECURSIVE splitSegments(_, _, _)
(* s.split("/"): the segments of a string, each a run of tokens. *)
splitSegments(s, i, cur) ==
  IF i > Len(s) THEN <<cur>>
  ELSE IF s[i] = "/" THEN <<cur>> \o splitSegments(s, i + 1, <<>>)
  ELSE splitSegments(s, i + 1, Append(cur, s[i]))

RECURSIVE normalizeSegments(_, _, _)
(* Path normalization of a relative path: empty and "." segments go, and    *)
(* ".." takes the segment before it away (or stays, when there is none).    *)
normalizeSegments(segs, i, acc) ==
  IF i > Len(segs) THEN acc
  ELSE IF segs[i] = <<>> \/ segs[i] = <<".">> THEN normalizeSegments(segs, i + 1, acc)
  ELSE IF segs[i] = <<"..">> /\ acc # <<>> /\ acc[Len(acc)] # <<"..">>
       THEN normalizeSegments(segs, i + 1, SubSeq(acc, 1, Len(acc) - 1))
  ELSE normalizeSegments(segs, i + 1, Append(acc, segs[i]))

RECURSIVE concatSegments(_)
concatSegments(segs) ==
  IF segs = <<>> THEN <<>>
  ELSE IF Len(segs) = 1 THEN segs[1]
  ELSE segs[1] \o <<"/">> \o concatSegments(Tail(segs))

(* The normalization join applies; a trailing "/" is kept. *)
collapse(s) ==
  LET n == concatSegments(normalizeSegments(splitSegments(s, 1, <<>>), 1, <<>>))
  IN IF n = <<>> THEN <<".">>
     ELSE IF s[Len(s)] = "/" THEN n \o <<"/">> ELSE n

(* join(base, pattern) for a non-empty base *)
join(base, pattern) ==
  IF pattern = <<>> THEN base ELSE collapse(base \o <<"/">> \o pattern)

(***************************************************************************)
(* picomatch, as far as the patterns of this model need it: "**" as a      *)
(* whole segment matches any number of segments (a trailing "/**" also     *)
(* matches the directory itself), "*" matches within one segment, any      *)
(* other token matches itself.                                             *)
(***************************************************************************)
RECURSIVE globMatch(_, _)
globMatch(p, str) ==
  IF p = <<>> THEN str = <<>>
  ELSE IF p = <<"*", "*">> THEN TRUE
  ELSE IF startsWith(p, StarStarSlash)
       THEN \/ globMatch(slice(p, 3), str)
            \/ \E i \in DOMAIN str : str[i] = "/" /\ globMatch(p, slice(str, i))
  ELSE IF p = <<"/", "*", "*">> THEN str = <<>> \/ str[1] = "/"
  ELSE IF p[1] = "*"
       THEN \/ globMatch(Tail(p), str)
            \/ str # <<>> /\ str[1] # "/" /\ globMatch(p, Tail(str))
  ELSE str # <<>> /\ str[1] = p[1] /\ globMatch(Tail(p), Tail(str))

(* picomatch(pattern, { ignore }): the ignore list is compiled when the     *)
(* matcher is created, so a matcher keeps the unignores of that moment.     *)
picomatch(pattern, ignore) == [pattern |-> pattern, ignore |-> ignore]

isMatch(m, str) ==
  /\ globMatch(m.pattern, str)
  /\ ~\E i \in DOMAIN m.ignore : globMatch(m.ignore[i], str)

(* matcher(str): the first matcher of the active set that matches wins.     *)
matcher(matchers, str) == \E i \in DOMAIN matchers : isMatch(matchers[i], str)

(***************************************************************************)
(* parseGitignoreFile                                                      *)
(***************************************************************************)
RECURSIVE trimStart(_)
trimStart(s) == IF s # <<>> /\ s[1] = " " THEN trimStart(Tail(s)) ELSE s

RECURSIVE trimEnd(_)
trimEnd(s) ==
  IF s # <<>> /\ s[Len(s)] = " " THEN trimEnd(SubSeq(s, 1, Len(s) - 1)) ELSE s

trim(s) == trimEnd(trimStart(s))

(* pattern.replace(/(?<!\\)#.*/, ''): cut at the first "#" that no          *)
(* backslash precedes.                                                      *)
stripComment(s) ==
  LET at == {i \in DOMAIN s : s[i] = "#" /\ (i = 1 \/ s[i - 1] # "\\")}
  IN IF at = {} THEN s
     ELSE SubSeq(s, 1, (CHOOSE i \in at : \A j \in at : i <= j) - 1)

(* The filter of parseGitignoreFile: line.trim() && !line.startsWith('#')   *)
keepsLine(line) == trim(line) # <<>> /\ ~startsWith(line, <<"#">>)

(* The flatMap of parseGitignoreFile: a pattern of an ancestor's file is    *)
(* rewritten relative to cwd (`from` is cwd's path below the file's         *)
(* directory, with a trailing "/"), or dropped; <<>> as `from` is none.     *)
rebase(pattern, from) ==
  LET heads == <<<<"!", "/">>, <<"!">>, <<"/">>, <<>>>>
      hit   == {i \in DOMAIN heads : startsWith(pattern, heads[i] \o from)}
  IN IF from = <<>> THEN <<pattern>>
     ELSE IF hit # {}
          THEN LET h == heads[CHOOSE i \in hit : \A j \in hit : i <= j]
               IN <<h \o slice(pattern, Len(h) + Len(from))>>
     ELSE IF startsWith(pattern, <<"/", "*", "*", "/">>) THEN <<slice(pattern, 1)>>
     ELSE IF startsWith(pattern, <<"!", "/", "*", "*", "/">>) THEN <<<<"!">> \o slice(pattern, 2)>>
     ELSE IF startsWith(pattern, <<"/">>) \/ startsWith(pattern, <<"!", "/">>) THEN <<>>
     ELSE <<pattern>>

RECURSIVE parseLines(_, _, _)
parseLines(lines, from, i) ==
  IF i > Len(lines) THEN <<>>
  ELSE LET rest == parseLines(lines, from, i + 1)
       IN IF ~keepsLine(lines[i]) THEN rest
          ELSE LET kept == rebase(trim(stripComment(lines[i])), from)
               IN (IF kept = <<>> THEN <<>>
                   ELSE <<convertGitignoreToPicomatchIgnorePatterns(kept[1])>>) \o rest

(* parseGitignoreFile(filePath, from), on the lines of the file *)
parseGitignoreFile(lines, from) == parseLines(lines, from, 1)

(***************************************************************************)
(* findAndParseGitignores: addFile                                         *)
(***************************************************************************)
(* '../constants.js' is not among the sources; these are the built-in noise *)
(* patterns the documentation describes.                                    *)
GLOBAL_IGNORE_PATTERNS == <<<<"*", "*", "/", "node_modules", "/", "*", "*">>, <<".yarn">>>>

init == <<<<".git">>>> \o GLOBAL_IGNORE_PATTERNS

Range(seq) == {seq[i] : i \in DOMAIN seq}

(* Set.prototype.add on a Set kept in insertion order *)
setAdd(seq, x) == IF x \in Range(seq) THEN seq ELSE Append(seq, x)

deep(p) == IF startsWith(p, StarStarSlash) THEN p ELSE StarStarSlash \o p

(* One rule of the file folded into the aggregates (a = [ignores,           *)
(* unignores, dirIgnores, dirUnignores]); `base` is the file's directory    *)
(* relative to cwd and `top` says base is "" or starts with "..".           *)
addRule(a, rule, base, top) ==
  LET pattern      == rule.patterns[1]
      extraPattern == rule.patterns[2]
      key          == IF top THEN extraPattern ELSE deep(extraPattern)
      p1           == IF top THEN pattern ELSE join(base, pattern)
      p2           == IF top THEN extraPattern ELSE join(base, extraPattern)
  IN IF rule.negated
     THEN IF key \in Range(a.unignores) THEN a
          ELSE [a EXCEPT !.unignores = @ \o <<p1, p2>>,
                         !.dirUnignores = setAdd(setAdd(@, p1), p2)]
     ELSE IF key \in Range(a.ignores) THEN a
          ELSE [a EXCEPT !.ignores = setAdd(setAdd(@, p1), p2),
                         !.dirIgnores = setAdd(setAdd(@, p1), p2)]

RECURSIVE addRules(_, _, _, _, _)
addRules(a, rules, base, top, i) ==
  IF i > Len(rules) THEN a
  ELSE addRules(addRule(a, rules[i], base, top), rules, base, top, i + 1)

(* A plausible slip: the matchers look at the live unignores list, so the   *)
(* ones registered earlier see the unignores appended later.                *)
addFile_LiveUnignores(g, dir, at, lines) ==
  LET base  == relative(g.cwd, at)
      up    == startsWith(base, <<"..">>)
      from  == IF up THEN relative(at, g.cwd) \o <<"/">> ELSE <<>>
      top   == base = <<>> \/ up
      a0    == [ignores |-> g.ignores, unignores |-> g.unignores,
                dirIgnores |-> IF base = <<>> THEN init ELSE <<>>,
                dirUnignores |-> <<>>]
      a     == addRules(a0, parseGitignoreFile(lines, from), base, top, 1)
      all   == [i \in DOMAIN g.matchers |-> g.matchers[i].pattern] \o a.dirIgnores
  IN [g EXCEPT
        !.gitignoreFiles = Append(@, dir),
        !.ignores = a.ignores,
        !.unignores = a.unignores,
        !.cache = MapSet(@, dir, [ignores |-> a.dirIgnores, unignores |-> a.dirUnignores]),
        !.matchers = [i \in DOMAIN all |-> picomatch(all[i], a.unignores)]]

(* addFile(filePath): `dir` is dirname(filePath) (the cache key), `at` the  *)
(* absolute directory it resolves to, `lines` the file's lines.  `g` is     *)
(* the state of one findAndParseGitignores call with the cache:             *)
(* [cwd, ignores, unignores, gitignoreFiles, matchers, cache].              *)
addFile(g, dir, at, lines) ==
  LET base  == relative(g.cwd, at)
      up    == startsWith(base, <<"..">>)
      from  == IF up THEN relative(at, g.cwd) \o <<"/">> ELSE <<>>
      top   == base = <<>> \/ up
      a0    == [ignores |-> g.ignores, unignores |-> g.unignores,
                dirIgnores |-> IF base = <<>> THEN init ELSE <<>>,
                dirUnignores |-> <<>>]
      a     == addRules(a0, parseGitignoreFile(lines, from), base, top, 1)
  IN [g EXCEPT
        !.gitignoreFiles = Append(@, dir),
        !.ignores = a.ignores,
        !.unignores = a.unignores,
        !.cache = MapSet(@, dir, [ignores |-> a.dirIgnores, unignores |-> a.dirUnignores]),
        !.matchers = @ \o [i \in DOMAIN a.dirIgnores |->
                             picomatch(a.dirIgnores[i], a.unignores)]]

(***************************************************************************)
(* The file system of a run: the directories /r, /r/a, /r/a/c and /r/b,    *)
(* and the ignore files some of them hold.                                 *)
(***************************************************************************)
R  == <<"", "r">>
Da == <<"", "r", "a">>
Dc == <<"", "r", "a", "c">>
Db == <<"", "r", "b">>

Dirs == {RootDir, R, Da, Dc, Db}

GitInfo == <<".git", "info">>

Children(d) == {e \in Dirs : Len(e) = Len(d) + 1 /\ SubSeq(e, 1, Len(d)) = d}

(* The lines an ignore file of each place may hold (<<>>: no such file).    *)
RootFiles == {<<>>, <<<<"/", "r", "/", "b">>, <<"/", "x">>>>}

TopFiles ==
  {<<>>, <<<<"a">>>>, <<<<"c">>, <<"!", "c">>>>, <<<<" ", "#", "n">>, <<"b", "/">>>>}

NestedFiles == {<<>>, <<<<"c">>>>, <<<<"!", "c">>, <<"c", "/">>>>}

ExcludeFiles == {<<>>, <<<<"a">>>>}

(* The file systems explored: every pair of files in /r and /r/a with       *)
(* nothing outside, and files above cwd and in .git/info beside a few.      *)
FileSystems ==
  {[root |-> <<>>, top |-> t, nested |-> n, exclude |-> <<>>] :
     t \in TopFiles, n \in NestedFiles}
  \cup {[root |-> r, top |-> t, nested |-> <<<<"c">>>>, exclude |-> x] :
          r \in RootFiles, t \in {<<>>, <<<<"a">>>>}, x \in ExcludeFiles}

(* The lines of the .gitignore in directory d (<<>>: there is none). *)
gitignoreOf(d) ==
  IF d = RootDir THEN fs.root ELSE IF d = R THEN fs.top
  ELSE IF d = Da THEN fs.nested ELSE <<>>

isFile(d) == gitignoreOf(d) # <<>>

RECURSIVE findAncestorGitignoreFiles(_)
(* The directories above cwd that hold a .gitignore, nearest first. *)
findAncestorGitignoreFiles(d) ==
  LET up   == dirname(d)
      here == IF isFile(up) THEN <<up>> ELSE <<>>
  IN IF dirname(up) = up \/ dirname(up) = <<".">> THEN here
     ELSE here \o findAncestorGitignoreFiles(up)

RECURSIVE addFiles(_, _, _)
addFiles(g, dirs, i) ==
  IF i > Len(dirs) THEN g
  ELSE addFiles(addFile(g, dirs[i], dirs[i], gitignoreOf(dirs[i])), dirs, i + 1)

(* A plausible slip: the cache is not emptied when a session starts.        *)
clearCache_Keep(cache) == cache

(* cachedIgnores.clear() *)
clearCache(cache) == <<>>

(* findAndParseGitignores(cwd) up to its await: the seeds, the ancestors'   *)
(* files and the repository's exclude file.  (`stale` is history: the keys  *)
(* the cache held when the session began.)                                  *)
findAndParseGitignores(cwd, cache, stale) ==
  LET g0 == [cwd |-> cwd, ignores |-> init, unignores |-> <<>>,
             gitignoreFiles |-> <<>>, stale |-> stale,
             matchers |-> [i \in DOMAIN init |-> picomatch(init[i], <<>>)],
             cache |-> cache]
      g1 == addFiles(g0, findAncestorGitignoreFiles(cwd), 1)
  IN IF fs.exclude # <<>>
     THEN addFile(g1, GitInfo, cwd \o GitInfo, fs.exclude)
     ELSE g1

NoPath == <<>>

NoRun == [cwd |-> R, ignores |-> <<>>, unignores |-> <<>>, gitignoreFiles |-> <<>>,
          matchers |-> <<>>, stale |-> {}]

NoWalk == [queue |-> {}, current |-> NoPath, remaining |-> {}, early |-> {},
           descended |-> {}]

NoGlob == [state |-> "none"]

MaxSessions == 2

GlobIdle ==
  /\ fs = [root |-> <<>>, top |-> <<>>, nested |-> <<>>, exclude |-> <<>>]
  /\ cachedIgnores = <<>> /\ run = NoRun /\ walk = NoWalk /\ pc = "idle"
  /\ sessions = 0 /\ handler = [kind |-> "none"] /\ glob = NoGlob

GlobInit ==
  /\ fs \in FileSystems
  /\ cachedIgnores = <<>> /\ run = NoRun /\ walk = NoWalk /\ pc = "idle"
  /\ sessions = 0 /\ handler = [kind |-> "none"] /\ glob = NoGlob

SetRun(g) ==
  /\ run' = [cwd |-> g.cwd, ignores |-> g.ignores, unignores |-> g.unignores,
             gitignoreFiles |-> g.gitignoreFiles, matchers |-> g.matchers,
             stale |-> g.stale]
  /\ cachedIgnores' = g.cache

RunWithCache ==
  [cwd |-> run.cwd, ignores |-> run.ignores, unignores |-> run.unignores,
   gitignoreFiles |-> run.gitignoreFiles, matchers |-> run.matchers,
   stale |-> run.stale, cache |-> cachedIgnores]

(* getGitIgnoredHandler(options), up to its await. *)
GetGitIgnoredHandler(cwd, gitignore) ==
  /\ pc = "idle"
  /\ sessions < MaxSessions
  /\ sessions' = sessions + 1
  /\ glob' = NoGlob
  /\ IF gitignore = FALSE
     THEN /\ cachedIgnores' = clearCache(cachedIgnores)
          /\ run' = [NoRun EXCEPT !.cwd = cwd, !.stale = MapKeys(cachedIgnores)]
          /\ handler' = [kind |-> "never"]
          /\ walk' = NoWalk
          /\ pc' = "idle"
     ELSE /\ SetRun(findAndParseGitignores(cwd, clearCache(cachedIgnores),
                                           MapKeys(cachedIgnores)))
          /\ handler' = [kind |-> "pending"]
          /\ walk' = [NoWalk EXCEPT !.queue = {cwd}]
          /\ pc' = "walking"
  /\ UNCHANGED fs
  /\ GlobFrame

Entries(d) == Children(d) \cup (IF isFile(d) THEN {d \o <<".gitignore">>} ELSE {})

(* The walk reads a queued directory; its entries are then handled one by   *)
(* one, in the order the file system lists them (any order).                *)
WalkOpen(d) ==
  /\ pc = "walking"
  /\ walk.current = NoPath
  /\ d \in walk.queue
  /\ walk' = [walk EXCEPT !.queue = @ \ {d},
                          !.current = IF Entries(d) = {} THEN NoPath ELSE d,
                          !.remaining = Entries(d)]
  /\ UNCHANGED <<fs, cachedIgnores, run, pc, sessions, handler, glob>>
  /\ GlobFrame

(* deepFilter(entry) *)
deepFilter(matchers, cwd, path) == ~matcher(matchers, relative(cwd, path))

(* One entry of the directory being read: entryFilter (an ignore file is    *)
(* parsed at once), then deepFilter if the entry is a directory.            *)
WalkEntry(e) ==
  /\ pc = "walking"
  /\ e \in walk.remaining
  /\ LET left == walk.remaining \ {e}
         next == [walk EXCEPT !.remaining = left,
                              !.current = IF left = {} THEN NoPath ELSE @]
     IN IF e \notin Dirs
        THEN /\ SetRun(addFile(RunWithCache, dirname(e), dirname(e),
                               gitignoreOf(dirname(e))))
             /\ walk' = next
        ELSE /\ walk' = [next EXCEPT
                  !.queue = IF deepFilter(run.matchers, run.cwd, e) THEN @ \cup {e} ELSE @,
                  !.descended = IF deepFilter(run.matchers, run.cwd, e) THEN @ \cup {e} ELSE @,
                  !.early = IF isFile(walk.current) /\ walk.current \notin Range(run.gitignoreFiles)
                            THEN @ \cup {e} ELSE @]
             /\ UNCHANGED <<run, cachedIgnores>>
  /\ UNCHANGED <<fs, pc, sessions, handler, glob>>
  /\ GlobFrame

(* The walk is over: getGitIgnoredHandler builds and returns isGitIgnored.  *)
WalkDone ==
  /\ pc = "walking"
  /\ walk.queue = {} /\ walk.current = NoPath
  /\ handler' = [kind |-> "matcher", ignores |-> run.ignores, unignores |-> run.unignores]
  /\ pc' = "idle"
  /\ UNCHANGED <<fs, cachedIgnores, run, walk, sessions, glob>>
  /\ GlobFrame

(***************************************************************************)
(* globby.  `patterns` and `options.ignore` are [array, items]: a value    *)
(* that is an array or not (a single string, undefined), and its items.    *)
(***************************************************************************)
(* A plausible slip: the early return for an empty list is missing.         *)
isEmptyList_Never(patterns) == FALSE

(* Array.isArray(patterns) && patterns.length === 0 *)
isEmptyList(patterns) == patterns.array /\ patterns.items = <<>>

(* options.gitignore && Array.isArray(options.ignore) ? [...options.ignore] : [] *)
initialIgnore(options) ==
  IF options.gitignore /\ options.ignore.array THEN options.ignore.items ELSE <<>>

negate(patterns) == [i \in DOMAIN patterns |-> <<"!">> \o patterns[i]]

PatternLists == {[array |-> TRUE, items |-> <<>>], [array |-> TRUE, items |-> <<<<"x">>>>],
                 [array |-> FALSE, items |-> <<<<"x">>>>]}

IgnoreLists == {[array |-> FALSE, items |-> <<>>], [array |-> TRUE, items |-> <<<<"e">>>>]}

GlobOptions ==
  {[gitignore |-> g, cwd |-> run.cwd, dir |-> d, ignore |-> i] :
     g \in BOOLEAN, d \in Dirs, i \in IgnoreLists}

(* fg.glob(patterns, { ...options, ignore }) *)
callEngine(frame) ==
  [frame EXCEPT !.state = "returned", !.engineCalls = @ + 1, !.handed = frame.ignore]

(* globby(patterns, options) up to its loop: the early return, the first    *)
(* ignore list and, without gitignore, the call of the engine.              *)
Globby(patterns, options) ==
  /\ pc = "idle"
  /\ LET frame == [state |-> "called", patterns |-> patterns, options |-> options,
                   dir |-> options.dir, ignore |-> <<>>, handed |-> <<>>,
                   cacheReads |-> {}, engineCalls |-> 0, cacheBefore |-> cachedIgnores,
                   turn |-> 0]
     IN IF isEmptyList(patterns)
        THEN glob' = [frame EXCEPT !.state = "returned"] /\ pc' = "idle"
        ELSE IF options.gitignore
        THEN /\ glob' = [frame EXCEPT !.state = "climbing", !.ignore = initialIgnore(options)]
             /\ pc' = "globby"
        ELSE /\ glob' = callEngine([frame EXCEPT !.ignore = initialIgnore(options)])
             /\ pc' = "idle"
  /\ UNCHANGED <<fs, cachedIgnores, run, walk, sessions, handler>>
  /\ GlobFrame

(* One turn of `while (dir !== options.cwd)`.  From a directory that is    *)
(* not below cwd the climb reaches "/", its own parent, and the loop turns  *)
(* forever: the frame is then "spinning"; of its further turns only the     *)
(* parity is recorded, not the same entries pushed again at every turn.     *)
GlobbyClimb ==
  /\ pc = "globby"
  /\ glob.dir # glob.options.cwd
  /\ LET more == IF MapHas(cachedIgnores, glob.dir)
                 THEN LET i == MapGet(cachedIgnores, glob.dir)
                      IN i.ignores \o negate(i.unignores)
                 ELSE <<>>
     IN glob' = IF glob.state = "spinning" THEN [glob EXCEPT !.turn = 1 - @]
                ELSE [glob EXCEPT !.ignore = @ \o more, !.dir = dirname(@),
                                  !.cacheReads = @ \cup {glob.dir},
                                  !.state = IF dirname(glob.dir) = glob.dir
                                            THEN "spinning" ELSE @]
  /\ UNCHANGED <<fs, cachedIgnores, run, walk, pc, sessions, handler>>
  /\ GlobFrame

(* After the loop: the working directory's ignores, then the engine. *)
GlobbyReturn ==
  /\ pc = "globby"
  /\ glob.dir = glob.options.cwd
  /\ LET more == IF MapHas(cachedIgnores, glob.options.cwd)
                 THEN MapGet(cachedIgnores, glob.options.cwd).ignores
                 ELSE <<>>
     IN glob' = callEngine([glob EXCEPT !.ignore = @ \o more,
                                      !.cacheReads = @ \cup {glob.options.cwd}])
  /\ pc' = "idle"
  /\ UNCHANGED <<fs, cachedIgnores, run, walk, sessions, handler>>
  /\ GlobFrame

SessionCwds == {R, Da}

GlobNext ==
  \/ \E c \in SessionCwds, g \in BOOLEAN : GetGitIgnoredHandler(c, g)
  \/ \E d \in Dirs : WalkOpen(d)
  \/ \E e \in walk.remaining : WalkEntry(e)
  \/ WalkDone
  \/ \E p \in PatternLists : \E o \in GlobOptions : Globby(p, o)
  \/ GlobbyClimb
  \/ GlobbyReturn

(***************************************************************************)
(* The handler getGitIgnoredHandler returns, and sessions on file systems  *)
(* whose ignore files hold the less usual rules.                           *)
(***************************************************************************)
(* A plausible slip: the handler's matcher is built without the unignores.  *)
isGitIgnored_NoUnignores(h, rel) ==
  matcher([i \in DOMAIN h.ignores |-> picomatch(h.ignores[i], <<>>)], rel)

(* isGitIgnored: _picomatch(Array.from(gitignore.ignores), { ignore:        *)
(* gitignore.unignores }), a list of matchers tried in order, applied to    *)
(* the path relative to cwd.                                                *)
isGitIgnored(h, rel) ==
  matcher([i \in DOMAIN h.ignores |-> picomatch(h.ignores[i], h.unignores)], rel)

(* A file path handed to the handler: its directory and its name. *)
Queries ==
  {[dir |-> Da, name |-> <<"b", ".log">>], [dir |-> Da, name |-> <<"keep", ".log">>],
   [dir |-> Da, name |-> <<"c">>], [dir |-> R, name |-> <<"b">>]}

(* relative(options.cwd, filePath) *)
relativeFile(cwd, q) ==
  LET d == relative(cwd, q.dir)
  IN IF d = <<>> THEN q.name ELSE d \o <<"/">> \o q.name

(* The handler is asked about a path. *)
IsGitIgnored(q) ==
  /\ pc = "idle"
  /\ handler.kind = "matcher"
  /\ handler' = [kind |-> "matcher", ignores |-> handler.ignores,
                 unignores |-> handler.unignores, asked |-> relativeFile(run.cwd, q),
                 answer |-> isGitIgnored(handler, relativeFile(run.cwd, q))]
  /\ UNCHANGED <<fs, cachedIgnores, run, walk, pc, sessions, glob>>
  /\ GlobFrame

NoFiles == [root |-> <<>>, top |-> <<>>, nested |-> <<>>, exclude |-> <<>>]

(* "*.log" with "!keep.log"; a rule and its unignore; an unignore repeated, *)
(* in a nested file and ending in "/*"; a nested rule climbing out with     *)
(* ".."; a rule above cwd whose extended form is a rule of cwd's file; a    *)
(* comment after spaces; a nested unignore of a rule of the parent.         *)
IgnoreFileSystems ==
  {[NoFiles EXCEPT !.top = <<<<"*", ".log">>, <<"!", "keep", ".log">>>>],
   [NoFiles EXCEPT !.top = <<<<"c">>, <<"!", "c">>>>, !.nested = <<<<"c">>>>],
   [NoFiles EXCEPT !.nested = <<<<"!", "c">>, <<"!", "c">>>>],
   [NoFiles EXCEPT !.top = <<<<"!", "c", "/", "*">>, <<"c", "/", "*">>, <<"c", "/", "*">>>>],
   [NoFiles EXCEPT !.nested = <<<<"/", "..", "/", "b">>>>],
   [NoFiles EXCEPT !.root = <<<<"b">>>>, !.top = <<<<"b", "/", "*", "*">>>>],
   [NoFiles EXCEPT !.top = <<<<" ", "#", "n">>, <<"b", "/">>>>, !.nested = <<<<"c">>>>],
   [NoFiles EXCEPT !.top = <<<<"c">>>>, !.nested = <<<<"!", "c">>>>],
   [NoFiles EXCEPT !.top = <<<<"b">>>>, !.nested = <<<<"c">>, <<"!", "c">>>>,
                   !.exclude = <<<<"a">>>>]}

IgnoreInit ==
  /\ fs \in IgnoreFileSystems
  /\ cachedIgnores = <<>> /\ run = NoRun /\ walk = NoWalk /\ pc = "idle"
  /\ sessions = 0 /\ handler = [kind |-> "none"] /\ glob = NoGlob

IgnoreNext ==
  \/ \E c \in SessionCwds, g \in BOOLEAN : GetGitIgnoredHandler(c, g)
  \/ \E d \in Dirs : WalkOpen(d)
  \/ \E e \in walk.remaining : WalkEntry(e)
  \/ WalkDone
  \/ \E q \in Queries : IsGitIgnored(q)

AnyMatch(patterns, str) == \E i \in DOMAIN patterns : globMatch(patterns[i], str)

(* C11: the handler reports a path as ignored exactly when its cwd-relative *)
(* form matches a pattern of the final ignores and none of the final        *)
(* unignores; with "*.log" and "!keep.log", "a/b.log" is ignored and        *)
(* "a/keep.log" is not.                                                     *)
C11_HandlerContract ==
  (handler.kind = "matcher" /\ "asked" \in DOMAIN handler) =>
     /\ handler.answer = (AnyMatch(run.ignores, handler.asked)
                            /\ ~AnyMatch(run.unignores, handler.asked))
     /\ (fs.top = <<<<"*", ".log">>, <<"!", "keep", ".log">>>> /\ run.cwd = R) =>
          /\ handler.asked = <<"a", "/", "b", ".log">> => handler.answer
          /\ handler.asked = <<"a", "/", "keep", ".log">> => ~handler.answer

C11_Witness ==
  /\ handler.kind = "matcher" /\ "asked" \in DOMAIN handler
  /\ handler.asked = <<"a", "/", "keep", ".log">> /\ ~handler.answer
  /\ AnyMatch(run.ignores, handler.asked)

(* The cached directories strictly inside the working directory. *)
InsideCwd(k) ==
  \/ k = GitInfo
  \/ /\ Len(k) > Len(run.cwd) /\ SubSeq(k, 1, Len(run.cwd)) = run.cwd

RelativeKey(k) == IF k = GitInfo THEN joinSegments(GitInfo) ELSE relative(run.cwd, k)

CachedPatterns(e) == Range(e.ignores) \cup Range(e.unignores)

(* The directories globby visits from q up to cwd. *)
RECURSIVE Chain(_, _)
Chain(q, cwd) == IF q = cwd \/ dirname(q) = q THEN {q} ELSE {q} \cup Chain(dirname(q), cwd)

(* C15: every pattern cached for a directory strictly inside cwd starts     *)
(* with that directory's path relative to cwd and matches no sibling        *)
(* directory, and is in the aggregates; and globby hands the engine cached  *)
(* patterns of the directories from the query directory up to cwd only.     *)
C15_NestedRulesScoped ==
  /\ \A i \in DOMAIN cachedIgnores :
       InsideCwd(cachedIgnores[i].k) =>
         \A p \in CachedPatterns(cachedIgnores[i].v) :
           /\ startsWith(p, RelativeKey(cachedIgnores[i].k) \o <<"/">>)
           /\ p \in Range(run.ignores) \cup Range(run.unignores)
           /\ \A d \in Dirs :
                (InsideCwd(d) /\ Len(d) = Len(cachedIgnores[i].k) /\ d # cachedIgnores[i].k)
                  => ~globMatch(p, relative(run.cwd, d))
  /\ (glob.state = "returned" /\ glob.engineCalls = 1) =>
       \A p \in Range(glob.handed) \ Range(glob.options.ignore.items) :
         \E d \in Chain(glob.options.dir, glob.options.cwd) :
           /\ MapHas(glob.cacheBefore, d)
           /\ p \in CachedPatterns(MapGet(glob.cacheBefore, d))
                      \cup Range(negate(MapGet(glob.cacheBefore, d).unignores))

NoRepeats(seq) == \A i, j \in DOMAIN seq : seq[i] = seq[j] => i = j

(* C16: the unignores list holds no pattern twice, and neither does any     *)
(* list of a cache entry or the aggregate ignores.                          *)
C16_NoRepeatedPatterns ==
  /\ NoRepeats(run.unignores)
  /\ NoRepeats(run.ignores)
  /\ \A i \in DOMAIN cachedIgnores :
       NoRepeats(cachedIgnores[i].v.ignores) /\ NoRepeats(cachedIgnores[i].v.unignores)

(* C17: in a session, a directory's cache entry holds no pattern that an    *)
(* earlier-parsed file contributed (the working directory's entry also      *)
(* holds the built-in seeds), and the aggregate ignores are the seeds and   *)
(* the cached ignores of all cached directories.                            *)
C17_CacheLocalAndConsistent ==
  handler.kind \in {"pending", "matcher"} =>
    /\ \A i, j \in DOMAIN cachedIgnores :
         j < i => /\ Range(cachedIgnores[i].v.ignores)
                       \cap Range(cachedIgnores[j].v.ignores) \subseteq Range(init)
                  /\ Range(cachedIgnores[i].v.unignores)
                       \cap Range(cachedIgnores[j].v.unignores) = {}
    /\ \A i \in DOMAIN cachedIgnores :
         cachedIgnores[i].k # run.cwd =>
           Range(cachedIgnores[i].v.ignores) \cap Range(init) = {}
    /\ Range(run.ignores) =
         Range(init) \cup UNION {Range(cachedIgnores[i].v.ignores) : i \in DOMAIN cachedIgnores}

(* The content of a line: what is left of it without comment and blanks. *)
Content(line) == trim(stripComment(line))

RECURSIVE RulesOfContent(_, _)
(* One rule per line that has content, none for the others. *)
RulesOfContent(lines, i) ==
  IF i > Len(lines) THEN <<>>
  ELSE (IF Content(lines[i]) = <<>> THEN <<>>
        ELSE <<convertGitignoreToPicomatchIgnorePatterns(Content(lines[i]))>>)
       \o RulesOfContent(lines, i + 1)

(* C19: an ignore file parsed in a session (in cwd or below it) gives one   *)
(* rule per line with content and none for a line without, so the pattern   *)
(* of an empty rule is in no aggregate.                                     *)
C19_NoRuleFromEmptyLine ==
  \A d \in Range(run.gitignoreFiles) \cap Dirs :
    (d = run.cwd \/ InsideCwd(d)) =>
      /\ parseGitignoreFile(gitignoreOf(d), <<>>) = RulesOfContent(gitignoreOf(d), 1)
      /\ \A p \in Range(run.ignores) \cup Range(run.unignores) :
           p # <<>> /\ p[Len(p)] # "/"

(* C20: while a session walks, a directory that the pruning predicate       *)
(* excludes stays excluded, whatever unignore a file parsed later appends.  *)
C20_LaterUnignoreNotHonoured ==
  [][(pc = "walking" /\ pc' = "walking") =>
       \A d \in Dirs :
         ~deepFilter(run.matchers, run.cwd, d) => ~deepFilter(run'.matchers, run'.cwd, d)]_vars

(* A directory that a nested file's unignore names is still pruned through  *)
(* the matcher its parent's file registered.                                *)
C20_Witness ==
  /\ pc = "walking" /\ Da \in Range(run.gitignoreFiles) /\ run.cwd = R
  /\ AnyMatch(run.unignores, relative(run.cwd, Dc))
  /\ ~deepFilter(run.matchers, run.cwd, Dc)
  /\ Dc \notin walk.descended

IsNegated(p) == p # <<>> /\ Head(p) = "!"

(* C14: with gitignore enabled, the list handed to the engine holds, in     *)
(* negated form, the unignores of every directory from the query directory  *)
(* up to and including cwd that contributes ignore patterns, and every      *)
(* negated entry comes after every ignore entry.                            *)
C14_UnignoresHandedLast ==
  (glob.state = "returned" /\ glob.engineCalls = 1 /\ glob.options.gitignore) =>
     /\ \A d \in Chain(glob.options.dir, glob.options.cwd) :
          (MapHas(glob.cacheBefore, d) /\ MapGet(glob.cacheBefore, d).ignores # <<>>) =>
             Range(negate(MapGet(glob.cacheBefore, d).unignores)) \subseteq Range(glob.handed)
     /\ \A i, j \in DOMAIN glob.handed :
          (IsNegated(glob.handed[i]) /\ ~IsNegated(glob.handed[j])) => j < i

(* C18: a globby call that entered the climb from options.dir to            *)
(* options.cwd comes to its end, whatever the two directories are.          *)
C18_ClimbTerminates == (glob.state = "climbing") ~> (glob.state = "returned")

EmptyListGiven == glob.state # "none" /\ glob.patterns.array /\ glob.patterns.items = <<>>

(* C5: whenever globby calls the glob engine, every exclude pattern of the  *)
(* caller's options.ignore is in the ignore list it hands over, with        *)
(* gitignore enabled and with gitignore disabled.                           *)
C5_ExcludesHanded ==
  (glob.state = "returned" /\ glob.engineCalls = 1) =>
     Range(glob.options.ignore.items) \subseteq Range(glob.handed)

(* C6: globby with an empty include list has returned at once: no call of   *)
(* the engine, no read of the cache, the cache as it was, whatever the      *)
(* other options.                                                           *)
C6_EmptyListReturnsAtOnce ==
  EmptyListGiven =>
    /\ glob.state = "returned" /\ pc = "idle"
    /\ glob.engineCalls = 0
    /\ glob.cacheReads = {}
    /\ cachedIgnores = glob.cacheBefore

C6_Witness ==
  /\ EmptyListGiven /\ glob.state = "returned"
  /\ glob.options.gitignore /\ glob.options.ignore.array
  /\ cachedIgnores # <<>>

(* C9: the cache holds entries only for the ignore files parsed in the most *)
(* recent session, with patterns of that session only; after a session      *)
(* with gitignore disabled it is empty, and a following globby hands the    *)
(* engine no ignore-file pattern.                                           *)
C9_NoLeakAcrossSessions ==
  /\ MapKeys(cachedIgnores) \subseteq Range(run.gitignoreFiles)
  /\ \A i \in DOMAIN cachedIgnores :
       /\ Range(cachedIgnores[i].v.ignores) \subseteq Range(run.ignores)
       /\ Range(cachedIgnores[i].v.unignores) \subseteq Range(run.unignores)
  /\ handler.kind = "never" =>
       /\ cachedIgnores = <<>>
       /\ (glob.state = "returned" /\ glob.engineCalls = 1) =>
             Range(glob.handed) \subseteq Range(glob.options.ignore.items)

C9_Witness ==
  /\ sessions = 2 /\ run.stale # {} /\ handler.kind = "never"
  /\ glob.state = "returned" /\ glob.engineCalls = 1 /\ glob.options.gitignore

(* Whether the ignore file of d's parent, once parsed, excludes d. *)
excludedByParent(d) ==
  /\ MapHas(cachedIgnores, dirname(d))
  /\ LET i == MapGet(cachedIgnores, dirname(d))
     IN matcher([k \in DOMAIN i.ignores |-> picomatch(i.ignores[k], run.unignores)],
                relative(run.cwd, d))

(* C10: in the walk, deepFilter is never evaluated for a child of a         *)
(* directory whose own ignore file is not registered yet, whatever the      *)
(* order of the entries; so no directory that its parent's ignore file      *)
(* excludes is descended into.                                              *)
C10_RulesBeforeChildren ==
  /\ walk.early = {}
  /\ \A d \in walk.descended : ~excludedByParent(d)

(***************************************************************************)
(* The specifications.                                                     *)
(***************************************************************************)
(* The dependency graph: files analyzed in any order, nodes asked for.      *)
InitGraph == GraphInit /\ MergeIdle /\ NormIdle /\ GlobIdle

SpecGraph == InitGraph /\ [][GraphNext]_vars

(* The dependency graph under the analyses alone.                           *)
AnalyzeNext == \E f \in FileSet : Analyze(f)

SpecAnalyze == InitGraph /\ [][AnalyzeNext]_vars

(* The merge of ImportDetails on bounded operands.                          *)
InitMerge == GraphIdle /\ MergeInit /\ NormIdle /\ GlobIdle

SpecMerge == InitMerge /\ [][MergeNext]_vars

(* The normalization of one raw ignore pattern.                             *)
InitNorm == GraphIdle /\ MergeIdle /\ NormInit /\ GlobIdle

SpecNorm == InitNorm /\ [][NormNext]_vars

(* Sessions of the ignore resolver and calls of globby.                     *)
Init == GraphIdle /\ MergeIdle /\ NormIdle /\ GlobInit

Spec == Init /\ [][GlobNext]_vars

(* Sessions of the ignore resolver and questions to the handler.            *)
InitIgnore == GraphIdle /\ MergeIdle /\ NormIdle /\ IgnoreInit

SpecIgnore == InitIgnore /\ [][IgnoreNext]_vars

(* Calls of globby, its loop running on once entered.                       *)
ClimbFileSystems ==
  {NoFiles, [NoFiles EXCEPT !.root = <<<<"/", "r", "/", "b">>>>, !.top = <<<<"a">>>>]}

InitClimb ==
  /\ GraphIdle /\ MergeIdle /\ NormIdle
  /\ fs \in ClimbFileSystems
  /\ cachedIgnores = <<>> /\ run = NoRun /\ walk = NoWalk /\ pc = "idle"
  /\ sessions = 0 /\ handler = [kind |-> "none"] /\ glob = NoGlob

SpecClimb ==
  InitClimb /\ [][GlobNext]_vars /\ WF_vars(GlobbyClimb) /\ WF_vars(GlobbyReturn)

====
